---- MODULE Spec2Model ----
(***************************************************************************)
(* A model of the freestyle bot's decision controller                      *)
(* (AdvancedFreestyleBot.get_output, src/src/bot.py) and of the timed      *)
(* control sequence it plays back.                                         *)
(*                                                                         *)
(* Units: times and durations are in hundredths of a second (0.05 s = 5),  *)
(* stick values (pitch, yaw, roll, steer, throttle) in hundredths           *)
(* (-0.4 = -40).  Distances, heights, speeds and boost are the game's own   *)
(* integers.                                                               *)
(***************************************************************************)
EXTENDS Integers, Sequences, FiniteSets, TLC

VARIABLES
    clock,              \* packet.game_info.seconds_elapsed of the last packet
    active_sequence,    \* self.active_sequence
    last_aerial_time,   \* self.last_aerial_time
    tricks_performed,   \* self.tricks_performed
    last_trick_type,    \* self.last_trick_type
    packet,             \* the packet of the last get_output call
    locals,             \* that call's time_since_aerial, aerial_conditions and
                        \* target (None: the call never computed them)
    ret,                \* what the last get_output call returned
    path,               \* the return statement the last get_output call left by
    quick_chats,        \* the quick chats the last get_output call sent
    prev_aerial         \* history: clock of the last update that started an aerial

vars == <<clock, active_sequence, last_aerial_time, tricks_performed,
          last_trick_type, packet, locals, ret, path, quick_chats, prev_aerial>>

\* Python's None where an object is expected (a sequence, a controller state,
\* a slice, a location): a record no object equals.
None == [none |-> TRUE]

\* Python's None as a value of self.last_trick_type, whose other values are
\* the tricks' names.
NoTrick == "None"

----------------------------------------------------------------------------
(* Control outputs and steps *)

\* SimpleControllerState(): every field neutral.
SimpleControllerState ==
    [jump |-> FALSE, boost |-> FALSE, throttle |-> 0, steer |-> 0,
     pitch |-> 0, yaw |-> 0, roll |-> 0]

\* SimpleControllerState(jump=, boost=, pitch=, yaw=, roll=)
Controls(jump, boost, pitch, yaw, roll) ==
    [SimpleControllerState EXCEPT !.jump = jump, !.boost = boost,
                                  !.pitch = pitch, !.yaw = yaw, !.roll = roll]

ControlStep(duration, controls) == [duration |-> duration, controls |-> controls]


----------------------------------------------------------------------------
(* Timed control sequence (util.sequence.Sequence): durations in           *)
(* hundredths of a second.                                                 *)

\* A clock value no sequence has started at.
NoTime == -1

\* Sequence(steps): just constructed, zero elapsed time, not done.
Sequence(steps) ==
    [steps |-> steps, start |-> NoTime, elapsed |-> 0, index |-> 0, done |-> FALSE]

\* The scan for the active step: walks the steps from index i, `before` being
\* the summed duration of the steps already walked over; the first step whose
\* cumulative duration exceeds the elapsed time is the active one.  Len + 1
\* when the elapsed time is past the whole plan.
RECURSIVE ScanSteps(_, _, _, _)
ScanSteps(steps, elapsed, i, before) ==
    IF i > Len(steps) THEN i
    ELSE IF before + steps[i].duration > elapsed THEN i
    ELSE ScanSteps(steps, elapsed, i + 1, before + steps[i].duration)

\* The scan with the comparison off by one: a step stays active at the very
\* moment its time is up.
RECURSIVE ScanStepsInclusive(_, _, _, _)
ScanStepsInclusive(steps, elapsed, i, before) ==
    IF i > Len(steps) THEN i
    ELSE IF before + steps[i].duration >= elapsed THEN i
    ELSE ScanStepsInclusive(steps, elapsed, i + 1, before + steps[i].duration)

ActiveIndexInclusive(steps, elapsed) == ScanStepsInclusive(steps, elapsed, 1, 0)

\* The scan that compares each step's own duration, not the cumulative one.
RECURSIVE ScanOwnDuration(_, _, _)
ScanOwnDuration(steps, elapsed, i) ==
    IF i > Len(steps) THEN i
    ELSE IF steps[i].duration > elapsed THEN i
    ELSE ScanOwnDuration(steps, elapsed, i + 1)

ActiveIndexOwnDuration(steps, elapsed) == ScanOwnDuration(steps, elapsed, 1)

ActiveIndex(steps, elapsed) == ScanSteps(steps, elapsed, 1, 0)

\* advance that measures the elapsed time from the previous call, not from
\* the sequence's start.
advance_from_last_call(seq, now) ==
    IF seq.done THEN [seq |-> seq, controls |-> None]
    ELSE
      LET idx   == ActiveIndex(seq.steps, now - (IF seq.start = NoTime THEN now ELSE seq.start))
          moved == [seq EXCEPT !.start = now, !.elapsed = 0, !.index = idx]
      IN  IF idx > Len(seq.steps)
          THEN [seq |-> [moved EXCEPT !.done = TRUE], controls |-> None]
          ELSE [seq |-> moved, controls |-> seq.steps[idx].controls]

\* advance that steps its cursor on by one at every call, whatever the clock.
advance_per_call(seq, now) ==
    IF seq.done THEN [seq |-> seq, controls |-> None]
    ELSE
      LET start == IF seq.start = NoTime THEN now ELSE seq.start
          idx   == seq.index + 1
          moved == [seq EXCEPT !.start = start, !.elapsed = now - start, !.index = idx]
      IN  IF idx > Len(seq.steps)
          THEN [seq |-> [moved EXCEPT !.done = TRUE], controls |-> None]
          ELSE [seq |-> moved, controls |-> seq.steps[idx].controls]

\* advance / tick: the sequence after the call and the controls it yields
\* (None: the absence signal).  The first call fixes the start; a done
\* sequence is inert.
advance(seq, now) ==
    IF seq.done THEN [seq |-> seq, controls |-> None]
    ELSE
      LET start   == IF seq.start = NoTime THEN now ELSE seq.start
          elapsed == now - start
          idx     == ActiveIndex(seq.steps, elapsed)
          moved   == [seq EXCEPT !.start = start, !.elapsed = elapsed, !.index = idx]
      IN  IF idx > Len(seq.steps)
          THEN [seq |-> [moved EXCEPT !.done = TRUE], controls |-> None]
          ELSE [seq |-> moved, controls |-> seq.steps[idx].controls]

----------------------------------------------------------------------------
(* The fixed per-behaviour templates *)

\* tornado_aerial: lines 175-190
tornado_aerial_steps ==
    <<
       ControlStep(10, Controls(TRUE, TRUE, 0, 0, 0)),
       ControlStep(5, Controls(FALSE, TRUE, 0, 0, 0)),
       ControlStep(10, Controls(TRUE, TRUE, -40, 0, 0)),
       ControlStep(15, Controls(FALSE, TRUE, -30, 100, 100)),
       ControlStep(15, Controls(FALSE, TRUE, -20, -100, 100)),
       ControlStep(15, Controls(FALSE, TRUE, -30, 100, 100)),
       ControlStep(15, Controls(FALSE, TRUE, -20, -100, 100)),
       ControlStep(20, Controls(FALSE, TRUE, -90, 0, 50)),
       ControlStep(40, Controls(FALSE, FALSE, 100, 0, 0))
    >>

\* kuxir_twist: lines 198-212
kuxir_twist_steps ==
    <<
       ControlStep(10, Controls(TRUE, TRUE, 0, 0, 0)),
       ControlStep(5, Controls(FALSE, TRUE, 0, 0, 0)),
       ControlStep(10, Controls(TRUE, TRUE, 100, 0, 0)),
       ControlStep(20, Controls(FALSE, TRUE, 50, 80, -100)),
       ControlStep(20, Controls(FALSE, TRUE, 30, -80, -100)),
       ControlStep(20, Controls(FALSE, TRUE, 50, 80, -100)),
       ControlStep(20, Controls(FALSE, TRUE, -50, 0, 50)),
       ControlStep(40, Controls(FALSE, FALSE, 100, 0, 0))
    >>

\* air_roll_shot: lines 220-234
air_roll_shot_steps ==
    <<
       ControlStep(10, Controls(TRUE, TRUE, 0, 0, 0)),
       ControlStep(5, Controls(FALSE, TRUE, 0, 0, 0)),
       ControlStep(10, Controls(TRUE, TRUE, -50, 0, 0)),
       ControlStep(25, Controls(FALSE, TRUE, -40, 0, 100)),
       ControlStep(25, Controls(FALSE, TRUE, -40, 0, 100)),
       ControlStep(25, Controls(FALSE, TRUE, -50, 0, 100)),
       ControlStep(15, Controls(FALSE, TRUE, -100, 0, 0)),
       ControlStep(40, Controls(FALSE, FALSE, 100, 0, 0))
    >>

\* ceiling_shuffle: lines 242-257
ceiling_shuffle_steps ==
    <<
       ControlStep(10, Controls(TRUE, TRUE, 0, 0, 0)),
       ControlStep(5, Controls(FALSE, TRUE, 0, 0, 0)),
       ControlStep(15, Controls(TRUE, TRUE, 50, 0, -100)),
       ControlStep(15, Controls(FALSE, TRUE, -20, 50, 100)),
       ControlStep(15, Controls(FALSE, TRUE, -20, -50, -100)),
       ControlStep(15, Controls(FALSE, TRUE, -30, 50, 100)),
       ControlStep(15, Controls(FALSE, TRUE, -30, -50, -100)),
       ControlStep(20, Controls(FALSE, TRUE, -80, 0, 0)),
       ControlStep(40, Controls(FALSE, FALSE, 100, 0, 0))
    >>

\* spinning_aerial: lines 265-274
spinning_aerial_steps ==
    <<
       ControlStep(10, Controls(TRUE, TRUE, 0, 0, 0)),
       ControlStep(5, Controls(FALSE, TRUE, 0, 0, 0)),
       ControlStep(10, Controls(TRUE, TRUE, -40, 0, 0)),
       ControlStep(30, Controls(FALSE, TRUE, -30, 0, -100)),
       ControlStep(30, Controls(FALSE, TRUE, -40, 0, -100)),
       ControlStep(20, Controls(FALSE, TRUE, -80, 0, 0)),
       ControlStep(40, Controls(FALSE, FALSE, 100, 0, 0))
    >>

\* basic_freestyle_aerial: lines 282-290
basic_freestyle_aerial_steps ==
    <<
       ControlStep(10, Controls(TRUE, TRUE, 0, 0, 0)),
       ControlStep(5, Controls(FALSE, TRUE, 0, 0, 0)),
       ControlStep(10, Controls(TRUE, TRUE, -50, 0, 0)),
       ControlStep(20, Controls(FALSE, TRUE, -40, 30, -100)),
       ControlStep(20, Controls(FALSE, TRUE, -50, -30, 100)),
       ControlStep(25, Controls(FALSE, TRUE, -70, 0, 0)),
       ControlStep(40, Controls(FALSE, FALSE, 100, 0, 0))
    >>

\* psycho: lines 298-314
psycho_steps ==
    <<
       ControlStep(10, Controls(TRUE, TRUE, 30, 0, 0)),
       ControlStep(5, Controls(FALSE, TRUE, 0, 0, 0)),
       ControlStep(10, Controls(TRUE, TRUE, 80, 0, 0)),
       ControlStep(20, Controls(FALSE, TRUE, 60, 50, 100)),
       ControlStep(20, Controls(FALSE, TRUE, 40, -50, 100)),
       ControlStep(20, Controls(FALSE, TRUE, 50, 50, 100)),
       ControlStep(20, Controls(FALSE, TRUE, 30, -50, 100)),
       ControlStep(15, Controls(FALSE, TRUE, -50, 0, 100)),
       ControlStep(15, Controls(FALSE, TRUE, -80, 0, 50)),
       ControlStep(50, Controls(FALSE, FALSE, 100, 0, 0))
    >>

\* musty_flick: lines 322-339
musty_flick_steps ==
    <<
       ControlStep(10, Controls(TRUE, TRUE, 0, 0, 0)),
       ControlStep(5, Controls(FALSE, TRUE, 0, 0, 0)),
       ControlStep(10, Controls(TRUE, TRUE, -30, 0, 0)),
       ControlStep(15, Controls(FALSE, TRUE, 60, 0, 0)),
       ControlStep(15, Controls(FALSE, TRUE, 80, 0, 0)),
       ControlStep(15, Controls(FALSE, TRUE, 100, 0, 0)),
       ControlStep(10, Controls(TRUE, FALSE, 100, 0, 0)),
       ControlStep(20, Controls(FALSE, FALSE, 100, 0, 0)),
       ControlStep(50, Controls(FALSE, FALSE, -100, 0, 0)),
       ControlStep(30, Controls(FALSE, FALSE, 100, 0, 0))
    >>

\* flip_reset: lines 347-368
flip_reset_steps ==
    <<
       ControlStep(10, Controls(TRUE, TRUE, 0, 0, 0)),
       ControlStep(5, Controls(FALSE, TRUE, 0, 0, 0)),
       ControlStep(10, Controls(TRUE, TRUE, -40, 0, 0)),
       ControlStep(20, Controls(FALSE, TRUE, -30, 0, 0)),
       ControlStep(15, Controls(FALSE, TRUE, 60, 0, 30)),
       ControlStep(15, Controls(FALSE, TRUE, 80, 0, -30)),
       ControlStep(15, Controls(FALSE, TRUE, 90, 0, 0)),
       ControlStep(10, Controls(FALSE, TRUE, -30, 0, 0)),
       ControlStep(5, Controls(TRUE, TRUE, 0, 0, 0)),
       ControlStep(20, Controls(TRUE, TRUE, -100, 40, 0)),
       ControlStep(50, Controls(FALSE, FALSE, 100, 0, 0))
    >>

\* diagonal_flip: lines 413-418
diagonal_flip_steps ==
    <<
       ControlStep(5, Controls(TRUE, FALSE, 0, 0, 0)),
       ControlStep(5, Controls(FALSE, FALSE, 0, 0, 0)),
       ControlStep(20, Controls(TRUE, FALSE, -100, 40, 0)),
       ControlStep(80, Controls(FALSE, FALSE, 0, 0, 0))
    >>

\* speed_flip: lines 428-458
speed_flip_steps ==
    <<
       ControlStep(5, Controls(TRUE, TRUE, 20, 0, 0)),
       ControlStep(5, Controls(FALSE, TRUE, 0, 0, 0)),
       ControlStep(12, Controls(TRUE, TRUE, -100, -25, 0)),
       ControlStep(18, Controls(FALSE, TRUE, 100, -15, -40)),
       ControlStep(15, Controls(FALSE, TRUE, 30, 0, -50)),
       ControlStep(30, [Controls(FALSE, TRUE, 0, 0, 0) EXCEPT !.throttle = 100])
    >>


----------------------------------------------------------------------------
(* Trajectory sampler (util.ball_prediction_analysis.find_slice_at_time)   *)

\* Times of the sampler are in units of 1/1500 s, so that the lookahead
\* 0.5 + distance / 1500.0 is an integer: one hundredth is 15 units.
PerHundredth == 15

\* The slice with the smallest timestamp at or after game_time (in 1/1500 s);
\* None for an empty prediction or a time past the last slice.  Slices are
\* in ascending time.
\* A sampler that wants a slice strictly after the target time.
RECURSIVE ScanSlicesAfter(_, _, _)
ScanSlicesAfter(slices, game_time, i) ==
    IF i > Len(slices) THEN None
    ELSE IF slices[i].game_seconds * PerHundredth > game_time THEN slices[i]
    ELSE ScanSlicesAfter(slices, game_time, i + 1)

RECURSIVE ScanSlices(_, _, _)
ScanSlices(slices, game_time, i) ==
    IF i > Len(slices) THEN None
    ELSE IF slices[i].game_seconds * PerHundredth >= game_time THEN slices[i]
    ELSE ScanSlices(slices, game_time, i + 1)

find_slice_at_time(ball_prediction, game_time) ==
    ScanSlices(ball_prediction, game_time, 1)

----------------------------------------------------------------------------
(* The decision controller: AdvancedFreestyleBot *)

\* self.aerial_cooldown = 3.0
aerial_cooldown == 300

Min(a, b) == IF a < b THEN a ELSE b

Range(list) == {list[i] : i \in 1..Len(list)}

\* list.remove(x): the list without its first x.
RECURSIVE Remove(_, _)
Remove(list, x) ==
    IF list = <<>> THEN <<>>
    ELSE IF Head(list) = x THEN Tail(list)
    ELSE <<Head(list)>> \o Remove(Tail(list), x)

\* check_aerial_conditions without the supersonic test of line 102.
check_aerial_conditions_any_speed(my_car, ball_height, distance_to_ball, time_since_aerial) ==
    /\ ball_height > 350
    /\ 400 < distance_to_ball /\ distance_to_ball < 2200
    /\ my_car.boost > 35
    /\ time_since_aerial > aerial_cooldown
    /\ my_car.has_wheel_contact

\* check_aerial_conditions with the cooldown test of line 101 off by one: an
\* aerial is allowed at the very moment the cooldown ends.
check_aerial_conditions_cooldown_inclusive(my_car, ball_height, distance_to_ball, time_since_aerial) ==
    /\ ball_height > 350
    /\ 400 < distance_to_ball /\ distance_to_ball < 2200
    /\ my_car.boost > 35
    /\ time_since_aerial >= aerial_cooldown
    /\ ~my_car.is_super_sonic
    /\ my_car.has_wheel_contact

\* check_aerial_conditions with the boost test of line 100 off by one: boost
\* of exactly 35 is enough.
check_aerial_conditions_boost_inclusive(my_car, ball_height, distance_to_ball, time_since_aerial) ==
    /\ ball_height > 350
    /\ 400 < distance_to_ball /\ distance_to_ball < 2200
    /\ my_car.boost >= 35
    /\ time_since_aerial > aerial_cooldown
    /\ ~my_car.is_super_sonic
    /\ my_car.has_wheel_contact

\* check_aerial_conditions without the upper distance limit of line 99.
check_aerial_conditions_any_distance(my_car, ball_height, distance_to_ball, time_since_aerial) ==
    /\ ball_height > 350
    /\ 400 < distance_to_ball
    /\ my_car.boost > 35
    /\ time_since_aerial > aerial_cooldown
    /\ ~my_car.is_super_sonic
    /\ my_car.has_wheel_contact

check_aerial_conditions(my_car, ball_height, distance_to_ball, time_since_aerial) ==
    /\ ball_height > 350
    /\ 400 < distance_to_ball /\ distance_to_ball < 2200
    /\ my_car.boost > 35
    /\ time_since_aerial > aerial_cooldown
    /\ ~my_car.is_super_sonic
    /\ my_car.has_wheel_contact

\* lookahead = min(0.5 + distance / 1500.0, 2.5), in 1/1500 s.
lookahead(distance) == Min(750 + distance, 3750)

\* find_aerial_target with the height test of line 117 off by one: a slice at
\* exactly 400 is high enough.
find_aerial_target_inclusive(ball_prediction, current_time, distance) ==
    LET target_slice == find_slice_at_time(
            ball_prediction, current_time * PerHundredth + lookahead(distance))
    IN  IF target_slice # None /\ target_slice.z >= 400
        THEN [z |-> target_slice.z] ELSE None

\* The target location (its height is all the model keeps of it), or None.
find_aerial_target(ball_prediction, current_time, distance) ==
    LET target_slice == find_slice_at_time(
            ball_prediction, current_time * PerHundredth + lookahead(distance))
    IN  IF target_slice # None /\ target_slice.z > 400
        THEN [z |-> target_slice.z] ELSE None

\* A behaviour method that installs its sequence without ticking it and
\* returns the first step's controls straight from the template.
StartSequenceUnticked(pkt, chats, steps) ==
    [active_sequence |-> Sequence(steps), ret |-> steps[1].controls,
     quick_chats |-> chats]

\* What every behaviour method does: send its quick chats, install a new
\* sequence and tick it once.
StartSequence(pkt, chats, steps) ==
    LET r == advance(Sequence(steps), pkt.seconds_elapsed)
    IN  [active_sequence |-> r.seq, ret |-> r.controls, quick_chats |-> chats]

tornado_aerial(pkt) == StartSequence(pkt, <<"Reactions_Calculated">>, tornado_aerial_steps)

kuxir_twist(pkt) == StartSequence(pkt, <<"Reactions_Siiiick">>, kuxir_twist_steps)

air_roll_shot(pkt) == StartSequence(pkt, <<"Reactions_Wow">>, air_roll_shot_steps)

ceiling_shuffle(pkt) == StartSequence(pkt, <<"Reactions_NoProblem">>, ceiling_shuffle_steps)

spinning_aerial(pkt) == StartSequence(pkt, <<"Reactions_OMG">>, spinning_aerial_steps)

basic_freestyle_aerial(pkt) == StartSequence(pkt, <<"Information_IGotIt">>, basic_freestyle_aerial_steps)

psycho(pkt) == StartSequence(pkt, <<"Reactions_Siiiick">>, psycho_steps)

musty_flick(pkt) == StartSequence(pkt, <<"Reactions_Wow">>, musty_flick_steps)

flip_reset(pkt) == StartSequence(pkt, <<"Reactions_Calculated">>, flip_reset_steps)

diagonal_flip(pkt) == StartSequence(pkt, <<>>, diagonal_flip_steps)

speed_flip(pkt) == StartSequence(pkt, <<"Reactions_Siiiick">>, speed_flip_steps)

\* TrickTiers with the tier tests of lines 133 and 137 off by one: boost of
\* exactly 60 unlocks the high tier, boost of exactly 40 the medium one.
TrickTiersInclusive(boost_amount) ==
    (IF boost_amount >= 60
     THEN <<"tornado", "ceiling_shuffle", "kuxir_twist", "flip_reset", "psycho">>
     ELSE <<>>)
    \o (IF boost_amount >= 40
        THEN <<"air_roll_shot", "musty_flick", "flip_reset">>
        ELSE <<>>)
    \o <<"basic_aerial", "spinning_aerial">>

\* TrickTiers without the tricks of line 141 that are always available.
TrickTiersNoBaseline(boost_amount) ==
    (IF boost_amount > 60
     THEN <<"tornado", "ceiling_shuffle", "kuxir_twist", "flip_reset", "psycho">>
     ELSE <<>>)
    \o (IF boost_amount > 40
        THEN <<"air_roll_shot", "musty_flick", "flip_reset">>
        ELSE <<>>)

\* The candidate list of choose_freestyle_aerial before the no-repeat removal.
TrickTiers(boost_amount) ==
    (IF boost_amount > 60
     THEN <<"tornado", "ceiling_shuffle", "kuxir_twist", "flip_reset", "psycho">>
     ELSE <<>>)
    \o (IF boost_amount > 40
        THEN <<"air_roll_shot", "musty_flick", "flip_reset">>
        ELSE <<>>)
    \o <<"basic_aerial", "spinning_aerial">>

\* The candidate list random.choice draws from.
Candidates(boost_amount, last) ==
    LET tricks == TrickTiers(boost_amount)
    IN  IF last \in Range(tricks) THEN Remove(tricks, last) ELSE tricks

\* The if/elif chain that executes the chosen trick.
ExecuteTrick(chosen_trick, pkt) ==
    CASE chosen_trick = "tornado"         -> tornado_aerial(pkt)
      [] chosen_trick = "kuxir_twist"     -> kuxir_twist(pkt)
      [] chosen_trick = "air_roll_shot"   -> air_roll_shot(pkt)
      [] chosen_trick = "ceiling_shuffle" -> ceiling_shuffle(pkt)
      [] chosen_trick = "spinning_aerial" -> spinning_aerial(pkt)
      [] chosen_trick = "psycho"          -> psycho(pkt)
      [] chosen_trick = "musty_flick"     -> musty_flick(pkt)
      [] chosen_trick = "flip_reset"      -> flip_reset(pkt)
      [] OTHER                            -> basic_freestyle_aerial(pkt)

\* choose_freestyle_aerial without the increment of line 149.
choose_freestyle_aerial_uncounted(pkt, boost_amount) ==
    LET tricks == Candidates(boost_amount, last_trick_type)
    IN  { [out              |-> ExecuteTrick(tricks[i], pkt),
           last_trick_type  |-> tricks[i],
           tricks_performed |-> tricks_performed] : i \in 1..Len(tricks) }

\* choose_freestyle_aerial: one outcome per entry random.choice may draw.
choose_freestyle_aerial(pkt, boost_amount) ==
    LET tricks == Candidates(boost_amount, last_trick_type)
    IN  { [out              |-> ExecuteTrick(tricks[i], pkt),
           last_trick_type  |-> tricks[i],
           tricks_performed |-> tricks_performed + 1] : i \in 1..Len(tricks) }

\* What steer_toward_target may return: full left, full right.
SteerValues == {-100, 100}

\* ground_game_logic without the wheel-contact test of its flip conditions
\* (lines 388, 392 and 396).
ground_game_logic_airborne_flips(self_sequence, pkt, my_car, distance, speed) ==
    IF 0 < speed /\ speed < 200 /\ distance > 1500
    THEN {[out |-> speed_flip(pkt), path |-> "speed_flip"]}
    ELSE IF 900 < speed /\ speed < 1100 /\ distance > 800
    THEN {[out |-> diagonal_flip(pkt), path |-> "diagonal_flip"]}
    ELSE IF 1200 < speed /\ speed < 1400 /\ distance > 1000
    THEN {[out |-> speed_flip(pkt), path |-> "speed_flip"]}
    ELSE {[out |-> [active_sequence |-> self_sequence,
                    ret |-> [SimpleControllerState EXCEPT
                               !.steer = steer, !.throttle = 100,
                               !.boost = (distance > 1500 /\ my_car.boost > 20
                                          /\ speed < 2200)],
                    quick_chats |-> <<>>],
           path |-> "steer"] : steer \in SteerValues}

\* ground_game_logic without the speed ceiling of the boost test of line 406.
ground_game_logic_boost_any_speed(self_sequence, pkt, my_car, distance, speed) ==
    IF 0 < speed /\ speed < 200 /\ my_car.has_wheel_contact /\ distance > 1500
    THEN {[out |-> speed_flip(pkt), path |-> "speed_flip"]}
    ELSE IF 900 < speed /\ speed < 1100 /\ my_car.has_wheel_contact /\ distance > 800
    THEN {[out |-> diagonal_flip(pkt), path |-> "diagonal_flip"]}
    ELSE IF 1200 < speed /\ speed < 1400 /\ my_car.has_wheel_contact /\ distance > 1000
    THEN {[out |-> speed_flip(pkt), path |-> "speed_flip"]}
    ELSE {[out |-> [active_sequence |-> self_sequence,
                    ret |-> [SimpleControllerState EXCEPT
                               !.steer = steer, !.throttle = 100,
                               !.boost = (distance > 1500 /\ my_car.boost > 20)],
                    quick_chats |-> <<>>],
           path |-> "steer"] : steer \in SteerValues}

\* ground_game_logic: the outcomes, a started trick or direct steering, which
\* leaves self.active_sequence (self_sequence) as it is.  The predicted ball
\* position only moves the steering target, whose effect is the steer value
\* chosen from SteerValues.
ground_game_logic(self_sequence, pkt, my_car, distance, speed) ==
    IF 0 < speed /\ speed < 200 /\ my_car.has_wheel_contact /\ distance > 1500
    THEN {[out |-> speed_flip(pkt), path |-> "speed_flip"]}
    ELSE IF 900 < speed /\ speed < 1100 /\ my_car.has_wheel_contact /\ distance > 800
    THEN {[out |-> diagonal_flip(pkt), path |-> "diagonal_flip"]}
    ELSE IF 1200 < speed /\ speed < 1400 /\ my_car.has_wheel_contact /\ distance > 1000
    THEN {[out |-> speed_flip(pkt), path |-> "speed_flip"]}
    ELSE {[out |-> [active_sequence |-> self_sequence,
                    ret |-> [SimpleControllerState EXCEPT
                               !.steer = steer, !.throttle = 100,
                               !.boost = (distance > 1500 /\ my_car.boost > 20
                                          /\ speed < 2200)],
                    quick_chats |-> <<>>],
           path |-> "steer"] : steer \in SteerValues}

\* get_output, lines 47-51: the held sequence is ticked when there is one and
\* it is not done.
TickActive(pkt) ==
    IF active_sequence # None /\ ~active_sequence.done
    THEN advance(active_sequence, pkt.seconds_elapsed)
    ELSE [seq |-> active_sequence, controls |-> None]

\* A delegation that sends the quick chat again on every tick of the held
\* sequence.
ContinueSequenceChatting(pkt, ticked) ==
    /\ active_sequence' = ticked.seq
    /\ ret' = ticked.controls
    /\ path' = "sequence"
    /\ quick_chats' = <<"Reactions_Siiiick">>
    /\ locals' = None
    /\ UNCHANGED <<last_aerial_time, tricks_performed, last_trick_type, prev_aerial>>

\* get_output, line 51: the sequence's controls are returned as they are.
ContinueSequence(pkt, ticked) ==
    /\ active_sequence' = ticked.seq
    /\ ret' = ticked.controls
    /\ path' = "sequence"
    /\ quick_chats' = <<>>
    /\ locals' = None
    /\ UNCHANGED <<last_aerial_time, tricks_performed, last_trick_type, prev_aerial>>

\* get_output, lines 53-92: the decision logic, self_sequence being
\* self.active_sequence as the tick above left it.
Decide(pkt, self_sequence) ==
    LET my_car       == pkt.my_car
        current_time == pkt.seconds_elapsed
        since        == current_time - last_aerial_time
        conditions   == check_aerial_conditions(
                            my_car, pkt.ball_height, pkt.distance_to_ball, since)
        found        == IF conditions
                        THEN find_aerial_target(pkt.ball_prediction, current_time,
                                                pkt.distance_to_ball)
                        ELSE None
    IN  /\ locals' = [time_since_aerial |-> since, aerial_conditions |-> conditions,
                       target |-> found]
        /\ IF conditions /\ found # None
           THEN \E chosen \in choose_freestyle_aerial(pkt, my_car.boost) :
                  /\ last_aerial_time' = current_time
                  /\ prev_aerial' = current_time
                  /\ last_trick_type' = chosen.last_trick_type
                  /\ tricks_performed' = chosen.tricks_performed
                  /\ active_sequence' = chosen.out.active_sequence
                  /\ ret' = chosen.out.ret
                  /\ quick_chats' = chosen.out.quick_chats
                  /\ path' = "aerial"
           ELSE \E ground \in ground_game_logic(self_sequence, pkt, my_car,
                                                pkt.distance_to_ball, pkt.car_speed) :
                  /\ active_sequence' = ground.out.active_sequence
                  /\ ret' = ground.out.ret
                  /\ quick_chats' = ground.out.quick_chats
                  /\ path' = ground.path
                  /\ UNCHANGED <<last_aerial_time, prev_aerial, last_trick_type,
                                 tricks_performed>>

\* get_output without lines 47-51: the decision logic runs in every update,
\* whatever the held sequence is doing.
get_output_always_decides(pkt) ==
    /\ clock' = pkt.seconds_elapsed
    /\ packet' = pkt
    /\ Decide(pkt, active_sequence)

\* get_output without the test of line 50: whatever the tick yields is
\* returned, the absence signal included.
get_output_returns_absence(pkt) ==
    /\ clock' = pkt.seconds_elapsed
    /\ packet' = pkt
    /\ IF active_sequence # None /\ ~active_sequence.done
       THEN ContinueSequence(pkt, TickActive(pkt))
       ELSE Decide(pkt, active_sequence)

\* One update: get_output(packet).
get_output(pkt) ==
    /\ clock' = pkt.seconds_elapsed
    /\ packet' = pkt
    /\ LET ticked == TickActive(pkt)
       IN  IF ticked.controls # None
           THEN ContinueSequence(pkt, ticked)
           ELSE Decide(pkt, ticked.seq)

----------------------------------------------------------------------------
(* The environment: the packets the host hands to get_output *)

\* The last clock value the model hands out.
MaxClock == 700

\* By how much the clock moves between two packets: not at all, one second,
\* or past the cooldown.
Deltas == {0, 100, 350}

\* A ball prediction: slices every half second from now on, all at height z.
SliceCount == 7

FlatPrediction(now, z) ==
    [i \in 1..SliceCount |-> [game_seconds |-> now + 50 * (i - 1), z |-> z]]

\* The packets at clock value now with the given field values.
PacketsOf(now, boosts, supersonic, contact, heights, distances, speeds, predictions) ==
    [seconds_elapsed : {now},
     my_car : [boost : boosts, is_super_sonic : supersonic, has_wheel_contact : contact],
     ball_height : heights, distance_to_ball : distances, car_speed : speeds,
     ball_prediction : predictions]

\* The packets of the long runs: a high ball in aerial range and far enough
\* for every ground trick; boost at the aerial threshold, at the top of the
\* low and of the medium tier, and in the high tier; standing, slow and at
\* flip speed; on and off the ground; without a prediction, with one too low
\* for an aerial and with a good one.
Packets(now) ==
    PacketsOf(now, {35, 40, 60, 70}, {FALSE}, BOOLEAN, {500}, {1800},
              {0, 150, 1000},
              {<<>>, FlatPrediction(now, 400), FlatPrediction(now, 500)})

\* The packets of the first update: every field on both sides of each
\* threshold the decision logic compares it with, and the ball also beyond
\* the distance at which the lookahead reaches its cap.
WidePackets(now) ==
    PacketsOf(now, {20, 35, 38, 50, 70}, BOOLEAN, BOOLEAN, {350, 500},
              {400, 1000, 1800, 2199, 2200, 3200}, {0, 150, 1000, 1300, 2300},
              {<<>>, FlatPrediction(now, 400), FlatPrediction(now, 500)})

\* The clock values of the first update.
FirstClocks == {0, 300, 350, 500}

\* __init__
Init ==
    /\ clock = 0
    /\ active_sequence = None
    /\ last_aerial_time = 0
    /\ tricks_performed = 0
    /\ last_trick_type = NoTrick
    /\ packet = None
    /\ locals = None
    /\ ret = None
    /\ path = "init"
    /\ quick_chats = <<>>
    /\ prev_aerial = NoTime

\* The host calls get_output with the next packet.
Update ==
    \E d \in Deltas :
      /\ clock + d <= MaxClock
      /\ \E pkt \in Packets(clock + d) : get_output(pkt)

Next == Update

Spec == Init /\ [][Next]_vars

\* The first call of get_output after construction, on any packet.
FirstUpdate ==
    /\ path = "init"
    /\ \E now \in FirstClocks : \E pkt \in WidePackets(now) : get_output(pkt)

NextFirst == FirstUpdate

SpecFirst == Init /\ [][NextFirst]_vars

\* The second call of get_output, one second after a first call at clock 0
\* that started a ground trick: by then a speed flip has run out and a
\* diagonal flip has not.
SecondDelta == 100

SecondUpdate ==
    /\ clock = 0
    /\ path \in {"speed_flip", "diagonal_flip"}
    /\ \E pkt \in WidePackets(SecondDelta) : get_output(pkt)

NextEarly == FirstUpdate \/ SecondUpdate

\* The first two calls of get_output, on any packets.
SpecEarly == Init /\ [][NextEarly]_vars

----------------------------------------------------------------------------
(* The controller under a clock that strictly increases: the host calls    *)
(* get_output again and again, each packet later than the one before       *)

\* By how much the clock moves between two packets: half a second or one.
LiveDeltas == {50, 100}

\* The least of LiveDeltas.
MinDelta == 50

\* The packets of these runs: boost below and above the aerial threshold, on
\* the ground, standing, slow and at flip speed, a good prediction.
LivePackets(now) ==
    PacketsOf(now, {35, 70}, {FALSE}, {TRUE}, {500}, {1800},
              {0, 150, 1000}, {FlatPrediction(now, 500)})

LiveUpdate ==
    \E d \in LiveDeltas :
      /\ clock + d <= MaxClock
      /\ \E pkt \in LivePackets(clock + d) : get_output(pkt)

NextLive == LiveUpdate

\* The host never stops calling get_output while the match runs.
SpecLive == Init /\ [][NextLive]_vars /\ WF_vars(LiveUpdate)

----------------------------------------------------------------------------
(* A sequence on its own: any short step list, advanced under a clock that  *)
(* never runs backwards                                                    *)

\* The longest step list.
MaxSteps == 3

\* The elapsed time up to which a sequence is advanced.
MaxElapsed == 65

Durations == {0, 10, 20}

ControlA == Controls(TRUE, TRUE, 0, 0, 0)
ControlB == Controls(FALSE, TRUE, -40, 0, 0)

StepChoices == {ControlStep(d, c) : d \in Durations, c \in {ControlA, ControlB}}

StepLists == UNION {[1..n -> StepChoices] : n \in 1..MaxSteps}

SeqDeltas == {0, 5, 10}

InitSeq ==
    /\ clock = 0
    /\ active_sequence \in {Sequence(steps) : steps \in StepLists}
    /\ last_aerial_time = 0
    /\ tricks_performed = 0
    /\ last_trick_type = NoTrick
    /\ packet = None
    /\ locals = None
    /\ ret = None
    /\ path = "init"
    /\ quick_chats = <<>>
    /\ prev_aerial = NoTime

\* One call of the sequence's advance with the clock moved on by d.
Advance ==
    \E d \in SeqDeltas :
      LET now == clock + d
          r   == advance(active_sequence, now)
      IN  /\ \/ active_sequence.start = NoTime
             \/ now - active_sequence.start <= MaxElapsed
          /\ clock' = now
          /\ active_sequence' = r.seq
          /\ ret' = r.controls
          /\ path' = "sequence"
          /\ UNCHANGED <<last_aerial_time, tricks_performed, last_trick_type,
                         packet, locals, quick_chats, prev_aerial>>

NextSeq == Advance

SpecSeq == InitSeq /\ [][NextSeq]_vars

----------------------------------------------------------------------------
(* The trajectory sampler on its own: any short time-ascending slice list  *)
(* and any target time                                                     *)

\* The longest slice list.
MaxSlices == 3

SliceTimes == {0, 50, 100}

SliceChoices == [game_seconds : SliceTimes, z : {300, 500}]

\* The slice lists in strictly ascending time, the empty one included.
SliceLists ==
    {slices \in UNION {[1..n -> SliceChoices] : n \in 0..MaxSlices} :
        \A i \in 1..Len(slices) : \A j \in 1..Len(slices) :
            i < j => slices[i].game_seconds < slices[j].game_seconds}

\* Target times in 1/1500 s: before, at, between and after the slice times.
TargetTimes == {-150, 0, 7, 375, 750, 757, 1125, 1500, 1501, 2250}

InitSample ==
    /\ clock = 0
    /\ active_sequence = None
    /\ last_aerial_time = 0
    /\ tricks_performed = 0
    /\ last_trick_type = NoTrick
    /\ packet \in [ball_prediction : SliceLists, game_time : TargetTimes]
    /\ locals = None
    /\ ret = None
    /\ path = "init"
    /\ quick_chats = <<>>
    /\ prev_aerial = NoTime

\* One call of find_slice_at_time on the inputs held in packet.
Sample ==
    /\ path = "init"
    /\ locals' = [target_slice |->
                    find_slice_at_time(packet.ball_prediction, packet.game_time)]
    /\ path' = "sampled"
    /\ UNCHANGED <<clock, active_sequence, last_aerial_time, tricks_performed,
                   last_trick_type, packet, ret, quick_chats, prev_aerial>>

NextSample == Sample

SpecSample == InitSample /\ [][NextSample]_vars

----------------------------------------------------------------------------
(* The aerial selection on its own: any boost level and any last trick     *)

\* The highest boost level.
MaxBoost == 100

\* What last_trick_type may hold: no trick yet, or a name random.choice drew.
LastTricks ==
    {NoTrick} \cup Range(TrickTiers(MaxBoost))

InitChoose ==
    /\ clock = 0
    /\ active_sequence = None
    /\ last_aerial_time = 0
    /\ last_trick_type \in LastTricks
    /\ tricks_performed = IF last_trick_type = NoTrick THEN 0 ELSE 1
    /\ packet \in [boost_amount : 0..MaxBoost]
    /\ locals = None
    /\ ret = None
    /\ path = "init"
    /\ quick_chats = <<>>
    /\ prev_aerial = NoTime

\* Lines 129-149 of choose_freestyle_aerial: the list is built, the last trick
\* removed, and random.choice draws from it, raising IndexError when the list
\* is empty.
Choose ==
    /\ path = "init"
    /\ LET tricks == Candidates(packet.boost_amount, last_trick_type)
       IN  IF tricks = <<>>
           THEN /\ locals' = [tricks |-> tricks, raised |-> "IndexError"]
                /\ UNCHANGED <<last_trick_type, tricks_performed>>
           ELSE \E i \in 1..Len(tricks) :
                  /\ locals' = [tricks |-> tricks, raised |-> "None"]
                  /\ last_trick_type' = tricks[i]
                  /\ tricks_performed' = tricks_performed + 1
    /\ path' = "chosen"
    /\ UNCHANGED <<clock, active_sequence, last_aerial_time, packet, ret,
                   quick_chats, prev_aerial>>

NextChoose == Choose

SpecChoose == InitChoose /\ [][NextChoose]_vars

----------------------------------------------------------------------------
(* Claims about the decision controller *)

\* The paths of get_output that install a new sequence.
StartingPaths == {"aerial", "speed_flip", "diagonal_flip"}

\* C1: in an update where the controller holds a sequence that is not done and
\* the sequence's advance yields a control output, get_output returns exactly
\* that output, the slot still holds that sequence (advanced), and the last
\* aerial time, the last chosen trick and the trick counter are unchanged.
C1_DelegatedUpdateOnlyAdvances ==
    [][ (/\ active_sequence # None
         /\ ~active_sequence.done
         /\ advance(active_sequence, clock').controls # None)
        => (/\ ret' = advance(active_sequence, clock').controls
            /\ active_sequence' = advance(active_sequence, clock').seq
            /\ active_sequence'.steps = active_sequence.steps
            /\ last_aerial_time' = last_aerial_time
            /\ last_trick_type' = last_trick_type
            /\ tricks_performed' = tricks_performed
            /\ quick_chats' = <<>>) ]_vars

\* An aerial's sequence, ticked again one second after it started, yielded
\* its recovery step.
C1_Witness ==
    /\ path = "sequence"
    /\ tricks_performed = 1
    /\ active_sequence.elapsed = 100
    /\ ret = active_sequence.steps[active_sequence.index].controls
    /\ ~ret.jump

\* C2: a new sequence is installed only in an update where the slot is empty,
\* the held sequence is already done, or the held sequence returns the absence
\* signal in that same update.
C2_NoInterruption ==
    [][ path' \in StartingPaths
        => (\/ active_sequence = None
            \/ active_sequence.done
            \/ advance(active_sequence, clock').controls = None) ]_vars

\* A second aerial's sequence took the place of the first's.
C2_Witness ==
    /\ path = "aerial"
    /\ tricks_performed = 2
    /\ active_sequence.start = clock
    /\ active_sequence.elapsed = 0

\* C3: every call of get_output returns a control output, never the absence
\* signal.
C3_AlwaysAnOutput ==
    path # "init" =>
        /\ ret # None
        /\ DOMAIN ret = DOMAIN SimpleControllerState

\* The held sequence ran out in this very update, which steered instead.
C3_Witness ==
    /\ path = "steer"
    /\ active_sequence # None
    /\ active_sequence.done
    /\ active_sequence.start + active_sequence.elapsed = clock
    /\ ret.throttle = 100

\* C8: of two consecutive aerial selections the second never equals the
\* first, whatever the boost (the candidate pool always has more than one
\* entry).
C8_NoImmediateRepeat ==
    [][ (/\ path' = "aerial"
         /\ last_trick_type # NoTrick
         /\ Len(TrickTiers(packet'.my_car.boost)) > 1)
        => last_trick_type' # last_trick_type ]_vars

\* C9: aerial eligibility is the conjunction of the six conditions: it holds
\* exactly when all six do, so a packet that fails any single one of them is
\* not eligible.
C9_EligibilityIsConjunction ==
    locals # None =>
        (locals.aerial_conditions <=>
            /\ packet.ball_height > 350
            /\ packet.distance_to_ball > 400
            /\ packet.distance_to_ball < 2200
            /\ packet.my_car.boost > 35
            /\ locals.time_since_aerial > 300
            /\ ~packet.my_car.is_super_sonic
            /\ packet.my_car.has_wheel_contact)

\* Five conditions hold and the car is supersonic: not eligible.
C9_Witness ==
    /\ locals # None
    /\ packet.ball_height = 500
    /\ packet.distance_to_ball = 1000
    /\ packet.my_car.boost = 70
    /\ locals.time_since_aerial = 500
    /\ packet.my_car.is_super_sonic
    /\ packet.my_car.has_wheel_contact
    /\ ~locals.aerial_conditions
    /\ path = "steer"

\* C10: two successive updates that start an aerial are more than the cooldown
\* apart.
C10_CooldownBetweenAerials ==
    [][ (path' = "aerial" /\ prev_aerial # NoTime)
        => clock' - prev_aerial > 300 ]_vars

\* The second aerial started 3.5 s after the first.
C10_Witness ==
    /\ path = "aerial"
    /\ tricks_performed = 2
    /\ prev_aerial = 700
    /\ clock = 700
    /\ locals.time_since_aerial = 350

----------------------------------------------------------------------------
(* Claims about the timed control sequence, under SpecSeq *)

\* The summed duration of the first n steps.
RECURSIVE CumulativeDuration(_, _)
CumulativeDuration(steps, n) ==
    IF n = 0 THEN 0 ELSE CumulativeDuration(steps, n - 1) + steps[n].duration

TotalDuration(steps) == CumulativeDuration(steps, Len(steps))

\* The sequence has been advanced at least once.
Advanced == active_sequence # None /\ active_sequence.start # NoTime

\* Time since the sequence's first advance, at the last call.
Elapsed == clock - active_sequence.start

\* The steps whose cumulative duration exceeds the elapsed time t.
StepsAhead(steps, t) == {i \in 1..Len(steps) : CumulativeDuration(steps, i) > t}

\* C4: an advance with elapsed time >= the total planned duration yields the
\* absence signal and sets done; once done, a sequence stays done and every
\* later advance yields the absence signal.
C4_DoneIsTerminal ==
    /\ [](Advanced /\ Elapsed >= TotalDuration(active_sequence.steps)
            => ret = None /\ active_sequence.done)
    /\ [][active_sequence.done => active_sequence'.done /\ ret' = None]_vars

\* A three-step plan of 40 hundredths was advanced again after it was done.
C4_Witness ==
    /\ Advanced
    /\ Len(active_sequence.steps) = 3
    /\ TotalDuration(active_sequence.steps) = 40
    /\ active_sequence.done
    /\ Elapsed > active_sequence.elapsed
    /\ ret = None

\* C5: under a clock that strictly increases from call to call the index of
\* the active step never decreases.
C5_MonotonicStepIndex ==
    [][ (Advanced /\ clock' > clock)
        => active_sequence'.index >= active_sequence.index ]_vars

\* The third step is active after the first two were passed.
C5_Witness ==
    /\ Advanced
    /\ active_sequence.index = 3
    /\ ~active_sequence.done
    /\ active_sequence.steps[1].duration > 0
    /\ active_sequence.steps[2].duration > 0
    /\ ret = active_sequence.steps[3].controls

\* C6: advance returns the controls of the step with the smallest index whose
\* cumulative duration exceeds the elapsed time, and the absence signal when
\* there is none; for steps [(0.1, A), (0.2, B)], elapsed 0.05 gives A, 0.15
\* gives B and 0.35 the absence signal.
C6_ActiveStepSelection ==
    Advanced =>
      LET steps == active_sequence.steps
          ahead == StepsAhead(steps, Elapsed)
      IN  /\ ahead = {} => ret = None
          /\ ahead # {} =>
               \E i \in ahead : /\ \A j \in ahead : i <= j
                                /\ ret = steps[i].controls
          /\ steps = <<ControlStep(10, ControlA), ControlStep(20, ControlB)>> =>
               /\ Elapsed = 5 => ret = ControlA
               /\ Elapsed = 15 => ret = ControlB
               /\ Elapsed = 35 => ret = None

\* The example's second step is active at 0.15 s.
C6_Witness ==
    /\ Advanced
    /\ active_sequence.steps = <<ControlStep(10, ControlA), ControlStep(20, ControlB)>>
    /\ Elapsed = 15
    /\ ret = ControlB

\* C7: a second advance under an unchanged clock returns the same output and
\* leaves the sequence as the first call left it.
C7_IdempotentAdvance ==
    [][ (Advanced /\ clock' = clock)
        => (ret' = ret /\ active_sequence' = active_sequence) ]_vars

\* Mid-plan, with steps still ahead: the state a repeated call has to keep.
C7_Witness ==
    /\ Advanced
    /\ active_sequence.index = 2
    /\ Len(active_sequence.steps) = 3
    /\ Elapsed = 10
    /\ ret = active_sequence.steps[2].controls
    /\ ret # active_sequence.steps[3].controls

----------------------------------------------------------------------------
(* Claims about the trajectory sampler, under SpecSample *)

\* The slices of the list at or after the target time.
SlicesFrom(slices, game_time) ==
    {i \in 1..Len(slices) : slices[i].game_seconds * PerHundredth >= game_time}

\* C11: for a time-ascending slice list and a target time, the sampler returns
\* a slice of the list whose timestamp is at or after the target time, the
\* nearest such one; for an empty list or a target time after the last slice
\* it returns the absence signal; the list and the target time are left as
\* they were.
C11_SampleAtOrAfterTarget ==
    [][ LET slices == packet.ball_prediction
            from   == SlicesFrom(slices, packet.game_time)
            found  == locals'.target_slice
        IN  /\ packet' = packet
            /\ IF from = {}
               THEN found = None
               ELSE /\ found \in Range(slices)
                    /\ found.game_seconds * PerHundredth >= packet.game_time
                    /\ \A i \in from :
                          found.game_seconds <= slices[i].game_seconds
                    /\ \E i \in from :
                          /\ found = slices[i]
                          /\ \A j \in 1..(i - 1) : j \notin from ]_vars

\* A target time between the first and the second of three slices gave the
\* second.
C11_Witness ==
    /\ path = "sampled"
    /\ Len(packet.ball_prediction) = 3
    /\ packet.game_time = 7
    /\ locals.target_slice = packet.ball_prediction[2]
    /\ locals.target_slice.game_seconds = 50

----------------------------------------------------------------------------
(* Claims about the decision logic, under SpecEarly *)

\* The update ran the decision logic (it was not a delegated one).
Decided == path # "init" /\ locals # None

\* Every eligibility condition but the boost one holds in the packet.
EligibleButForBoost ==
    /\ packet.ball_height > 350
    /\ 400 < packet.distance_to_ball /\ packet.distance_to_ball < 2200
    /\ locals.time_since_aerial > 300
    /\ ~packet.my_car.is_super_sonic
    /\ packet.my_car.has_wheel_contact

\* The scenario of the aerial trigger: ball 500 high and 1000 away, boost 70,
\* on the ground, five seconds since the last aerial.
TriggerScenario ==
    /\ packet.ball_height = 500
    /\ packet.distance_to_ball = 1000
    /\ packet.my_car.boost = 70
    /\ packet.my_car.has_wheel_contact
    /\ ~packet.my_car.is_super_sonic
    /\ locals.time_since_aerial = 500

\* C12: the boost condition is strict at 35.  With every other condition
\* holding, boost 38 makes the car eligible and boost of exactly 35 does not;
\* in the scenario (height 500, distance 1000, boost 70, grounded, 5 s since
\* the last aerial, cooldown 3 s) the car is eligible, the lookahead is
\* 0.5 + 1000/1500 s, under the cap, and the aerial path starts a sequence
\* once the sampler gives a target.
C12_BoostThresholdStrict ==
    Decided =>
        /\ (EligibleButForBoost /\ packet.my_car.boost = 38)
             => /\ locals.aerial_conditions
                /\ locals.target # None => path = "aerial"
        /\ (EligibleButForBoost /\ packet.my_car.boost = 35)
             => /\ ~locals.aerial_conditions
                /\ path # "aerial"
        /\ EligibleButForBoost
             => (locals.aerial_conditions <=> packet.my_car.boost > 35)
        /\ TriggerScenario
             => /\ aerial_cooldown = 300
                /\ locals.aerial_conditions
                /\ lookahead(packet.distance_to_ball) = 750 + 1000
                /\ lookahead(packet.distance_to_ball) < 3750
                /\ locals.target # None => path = "aerial"

\* Boost 38, everything else in order and a good prediction: an aerial began.
C12_Witness ==
    /\ Decided
    /\ EligibleButForBoost
    /\ packet.my_car.boost = 38
    /\ locals.aerial_conditions
    /\ path = "aerial"
    /\ ret.jump

\* The ground behaviour the packet calls for, the conditions tried in order.
GroundChoice ==
    LET speed    == packet.car_speed
        distance == packet.distance_to_ball
        grounded == packet.my_car.has_wheel_contact
    IN  IF 0 < speed /\ speed < 200 /\ grounded /\ distance > 1500
        THEN "speed_flip"
        ELSE IF 900 < speed /\ speed < 1100 /\ grounded /\ distance > 800
        THEN "diagonal_flip"
        ELSE IF 1200 < speed /\ speed < 1400 /\ grounded /\ distance > 1000
        THEN "speed_flip"
        ELSE "steer"

\* C13: when the aerial path does not fire, the ground behaviour is the first
\* that matches of: near-zero speed, grounded, distance > 1500: the launch
\* (speed flip); 900 < speed < 1100, grounded, distance > 800: the diagonal
\* flip; 1200 < speed < 1400, grounded, distance > 1000: the speed flip;
\* otherwise direct steering.  Speed 150, grounded, distance 1800 selects the
\* launch.
C13_GroundPriority ==
    (Decided /\ path # "aerial") =>
        /\ path = GroundChoice
        /\ path = "speed_flip" =>
             /\ active_sequence.steps = speed_flip_steps
             /\ active_sequence.start = clock
        /\ path = "diagonal_flip" =>
             /\ active_sequence.steps = diagonal_flip_steps
             /\ active_sequence.start = clock
        /\ (/\ packet.car_speed = 150
            /\ packet.my_car.has_wheel_contact
            /\ packet.distance_to_ball = 1800) => path = "speed_flip"

\* Speed 150, grounded, 1800 from the ball, no aerial: the launch began.
C13_Witness ==
    /\ Decided
    /\ packet.car_speed = 150
    /\ packet.my_car.has_wheel_contact
    /\ packet.distance_to_ball = 1800
    /\ path = "speed_flip"
    /\ active_sequence.steps = speed_flip_steps
    /\ ret = speed_flip_steps[1].controls

\* The output of a direct-steering update: full throttle, no jump, boost
\* exactly when the ball is far, the reserve sufficient and the car under the
\* speed ceiling.  Read in the state after the update.
SteeringOutput ==
    /\ ret.throttle = 100
    /\ ~ret.jump
    /\ ret.boost <=> (/\ packet.distance_to_ball > 1500
                      /\ packet.my_car.boost > 20
                      /\ packet.car_speed < 2200)

\* C18 as stated: every direct-steering output has throttle 1.0, jump not
\* pressed and boost pressed exactly when distance > 1500, boost > 20 and
\* speed < 2200, and a direct-steering update does not create or modify any
\* sequence.
C18_SteeringTouchesNoSequence ==
    [][ path' = "steer"
        => /\ SteeringOutput'
           /\ active_sequence' = active_sequence ]_vars

\* C18, amended: every direct-steering output has throttle 1.0, jump not
\* pressed and boost pressed exactly when distance > 1500, boost > 20 and
\* speed < 2200; a direct-steering update creates no sequence, and the slot
\* keeps what it held, changed only by the tick of that same update when it
\* found the held sequence finished and marked it done.
C18_SteeringCreatesNoSequence ==
    [][ path' = "steer"
        => /\ SteeringOutput'
           /\ active_sequence = None => active_sequence' = None
           /\ (active_sequence # None /\ active_sequence.done)
                => active_sequence' = active_sequence
           /\ (active_sequence # None /\ ~active_sequence.done)
                => /\ active_sequence' = advance(active_sequence, clock').seq
                   /\ active_sequence'.steps = active_sequence.steps
                   /\ active_sequence'.start = active_sequence.start
                   /\ active_sequence'.done ]_vars

\* The speed flip begun at clock 0 ran out in the second update, which
\* steered, without boost because the car was above the speed ceiling.
C18_Witness ==
    /\ path = "steer"
    /\ clock = SecondDelta
    /\ active_sequence # None
    /\ active_sequence.steps = speed_flip_steps
    /\ active_sequence.done
    /\ packet.distance_to_ball = 1800
    /\ packet.my_car.boost = 70
    /\ packet.car_speed = 2300
    /\ ret.throttle = 100
    /\ ~ret.boost

\* C19: from a standstill (speed exactly 0), grounded, more than 1500 from the
\* ball and with no aerial begun, the ground logic starts the launch (speed
\* flip) sequence rather than steering.
C19_LaunchFromStandstill ==
    (/\ Decided
     /\ packet.car_speed = 0
     /\ packet.my_car.has_wheel_contact
     /\ packet.distance_to_ball > 1500
     /\ path # "aerial") => path = "speed_flip"

----------------------------------------------------------------------------
(* Claims about aerial selection and sequence starts, under Spec *)

BaselineTricks == {"basic_aerial", "spinning_aerial"}

MediumTricks == {"air_roll_shot", "musty_flick", "flip_reset"}

HighTricks == {"tornado", "ceiling_shuffle", "kuxir_twist", "flip_reset", "psycho"}

\* The tricks the boost level unlocks.
UnlockedTricks(boost_amount) ==
    BaselineTricks
    \cup (IF boost_amount > 40 THEN MediumTricks ELSE {})
    \cup (IF boost_amount > 60 THEN HighTricks ELSE {})

NoUsableSlice ==
    LET target_slice == find_slice_at_time(
            packet.ball_prediction,
            packet.seconds_elapsed * PerHundredth + lookahead(packet.distance_to_ball))
    IN  target_slice = None \/ target_slice.z <= 400

\* C15: when the car is eligible for an aerial but the sampler returns no
\* slice, or a slice not above 400, the update falls through to the ground
\* logic: no aerial sequence is started, and the last aerial time, the last
\* chosen trick and the trick counter stay as they were.
C15_FailedAttemptFallsThrough ==
    [][ (/\ locals' # None
         /\ locals'.aerial_conditions
         /\ NoUsableSlice')
        => (/\ path' \in {"speed_flip", "diagonal_flip", "steer"}
            /\ path' = GroundChoice'
            /\ last_aerial_time' = last_aerial_time
            /\ last_trick_type' = last_trick_type
            /\ tricks_performed' = tricks_performed) ]_vars

\* After one aerial, an eligible car found the predicted ball at exactly 400
\* and took to the ground logic.
C15_Witness ==
    /\ locals # None
    /\ locals.aerial_conditions
    /\ locals.target = None
    /\ packet.ball_prediction = FlatPrediction(clock, 400)
    /\ path \in {"speed_flip", "diagonal_flip", "steer"}
    /\ tricks_performed = 1
    /\ last_aerial_time < clock

\* The template of each trick name random.choice may draw.
TrickTemplate(chosen_trick) ==
    CASE chosen_trick = "tornado"         -> tornado_aerial_steps
      [] chosen_trick = "kuxir_twist"     -> kuxir_twist_steps
      [] chosen_trick = "air_roll_shot"   -> air_roll_shot_steps
      [] chosen_trick = "ceiling_shuffle" -> ceiling_shuffle_steps
      [] chosen_trick = "spinning_aerial" -> spinning_aerial_steps
      [] chosen_trick = "psycho"          -> psycho_steps
      [] chosen_trick = "musty_flick"     -> musty_flick_steps
      [] chosen_trick = "flip_reset"      -> flip_reset_steps
      [] chosen_trick = "basic_aerial"    -> basic_freestyle_aerial_steps

TrickNames == BaselineTricks \cup MediumTricks \cup HighTricks

\* C16: an update that selects an aerial sets the last chosen trick to the
\* selection and adds exactly one to the trick counter; no other update
\* (delegated, ground trick, steering) changes either; so the counter never
\* decreases, starts at 0 and is 0 exactly as long as no aerial has begun.
C16_TrickBookkeeping ==
    /\ [](path = "init" => tricks_performed = 0 /\ last_trick_type = NoTrick)
    /\ [](tricks_performed = 0 <=> prev_aerial = NoTime)
    /\ [][ IF path' = "aerial"
           THEN /\ tricks_performed' = tricks_performed + 1
                /\ last_trick_type' \in TrickNames
                /\ active_sequence'.steps = TrickTemplate(last_trick_type')
                /\ active_sequence'.start = clock'
           ELSE /\ tricks_performed' = tricks_performed
                /\ last_trick_type' = last_trick_type ]_vars

\* After one aerial, a ground trick began and left the books alone.
C16_Witness ==
    /\ path = "diagonal_flip"
    /\ tricks_performed = 1
    /\ last_trick_type = "spinning_aerial"
    /\ last_aerial_time < clock

\* The template of the behaviour the update started.
StartedTemplate ==
    CASE path = "aerial"        -> TrickTemplate(last_trick_type)
      [] path = "speed_flip"    -> speed_flip_steps
      [] path = "diagonal_flip" -> diagonal_flip_steps

\* C17: in the update that starts a new sequence, the sequence is built from
\* the chosen behaviour's template and advanced exactly once, and the update
\* returns the controls of the template's first step; for every aerial
\* template these have jump and boost pressed.
C17_StartReturnsFirstStep ==
    /\ \A name \in TrickNames :
         /\ TrickTemplate(name)[1].controls.jump
         /\ TrickTemplate(name)[1].controls.boost
    /\ path \in StartingPaths =>
         /\ active_sequence # None
         /\ active_sequence.steps = StartedTemplate
         /\ active_sequence.start = clock
         /\ active_sequence.elapsed = 0
         /\ active_sequence.index = 1
         /\ ~active_sequence.done
         /\ ret = StartedTemplate[1].controls
         /\ path = "aerial" => (ret.jump /\ ret.boost)

\* A psycho began: its first step jumps, boosts and pitches up.
C17_Witness ==
    /\ path = "aerial"
    /\ last_trick_type = "psycho"
    /\ active_sequence.steps = psycho_steps
    /\ active_sequence.index = 1
    /\ ret = psycho_steps[1].controls
    /\ ret.jump /\ ret.boost /\ ret.pitch = 30

\* C20: an update sends at most one quick chat, and only when it starts a new
\* sequence; a delegated update and a steering update send none.
C20_ChatOnlyOnStart ==
    /\ Len(quick_chats) <= 1
    /\ quick_chats # <<>> =>
         /\ path \in StartingPaths
         /\ active_sequence.start = clock
         /\ active_sequence.elapsed = 0
    /\ path \in {"sequence", "steer"} => quick_chats = <<>>

\* A tornado began and sent its one chat.
C20_Witness ==
    /\ path = "aerial"
    /\ last_trick_type = "tornado"
    /\ quick_chats = <<"Reactions_Calculated">>
    /\ active_sequence.elapsed = 0

----------------------------------------------------------------------------
(* Claims about when a sequence may start *)

\* C22: a new sequence, aerial or ground trick, is started only in an update
\* whose car has wheel contact; none is ever started while the car is
\* airborne.
C22_StartsOnlyFromTheGround ==
    /\ path \in StartingPaths => packet.my_car.has_wheel_contact
    /\ (Decided /\ ~packet.my_car.has_wheel_contact)
         => /\ path = "steer"
            /\ ~locals.aerial_conditions

\* A speed flip of the higher band began, with the wheels on the ground.
C22_Witness ==
    /\ path = "speed_flip"
    /\ packet.car_speed = 1300
    /\ packet.my_car.has_wheel_contact
    /\ active_sequence.start = clock

\* C23: when random.choice draws, the candidate list is never empty, whatever
\* the boost level and whatever the last chosen trick, none included: the
\* selection cannot fail.
C23_CandidatesNeverEmpty ==
    /\ path = "init" => Candidates(packet.boost_amount, last_trick_type) # <<>>
    /\ path = "chosen" =>
         /\ locals.tricks # <<>>
         /\ locals.raised = "None"
         /\ last_trick_type \in Range(locals.tricks)

\* With boost 40 and spinning_aerial chosen last, the list had one entry
\* left, which was drawn.
C23_Witness ==
    /\ path = "chosen"
    /\ packet.boost_amount = 40
    /\ locals.tricks = <<"basic_aerial">>
    /\ last_trick_type = "basic_aerial"
    /\ tricks_performed = 2

\* Every eligibility condition but the cooldown one holds in the packet.
EligibleButForCooldown ==
    /\ packet.ball_height > 350
    /\ 400 < packet.distance_to_ball /\ packet.distance_to_ball < 2200
    /\ packet.my_car.boost > 35
    /\ ~packet.my_car.is_super_sonic
    /\ packet.my_car.has_wheel_contact

\* C24: the last aerial time starts at 0, so no aerial sequence is started in
\* an update whose clock is at most 3.0 s, even when every other aerial
\* condition holds and no aerial has been attempted yet.
C24_NoAerialInTheFirstThreeSeconds ==
    /\ path = "init" => last_aerial_time = 0
    /\ (path # "init" /\ clock <= 300) =>
         /\ path # "aerial"
         /\ tricks_performed = 0
         /\ last_aerial_time = 0
         /\ locals # None => ~locals.aerial_conditions

\* At exactly 3.0 s, with everything else in order and a good prediction, the
\* car was not eligible and took to the ground logic.
C24_Witness ==
    /\ clock = 300
    /\ Decided
    /\ EligibleButForCooldown
    /\ packet.ball_prediction = FlatPrediction(clock, 500)
    /\ locals.time_since_aerial = 300
    /\ ~locals.aerial_conditions
    /\ path \in {"speed_flip", "diagonal_flip", "steer"}

\* C25: whenever the sampler is queried on the aerial path, the lookahead
\* min(0.5 + distance/1500, 2.5) is strictly below the 2.5 s cap, because
\* eligibility keeps the distance between 400 and 2200: the cap never binds
\* on an aerial query.
C25_LookaheadCapNeverBinds ==
    /\ (Decided /\ locals.aerial_conditions) =>
         /\ 400 < packet.distance_to_ball /\ packet.distance_to_ball < 2200
         /\ lookahead(packet.distance_to_ball) = 750 + packet.distance_to_ball
         /\ lookahead(packet.distance_to_ball) < 3750
    /\ (Decided /\ lookahead(packet.distance_to_ball) = 3750) =>
         /\ packet.distance_to_ball >= 3000
         /\ ~locals.aerial_conditions
         /\ path # "aerial"

\* The farthest eligible ball, at 2199: the lookahead was 0.5 + 2199/1500 s
\* and the aerial began.
C25_Witness ==
    /\ Decided
    /\ locals.aerial_conditions
    /\ packet.distance_to_ball = 2199
    /\ lookahead(packet.distance_to_ball) = 2949
    /\ locals.target # None
    /\ path = "aerial"

----------------------------------------------------------------------------
(* Claims about progress, under SpecLive *)

\* The shortest template's duration.
ShortestDuration == TotalDuration(speed_flip_steps)

\* The clock values of SpecLive's updates at which a sequence can start and
\* end before the last update.
LiveClocks ==
    {c \in 0..MaxClock : /\ c % MinDelta = 0
                         /\ c + ShortestDuration + MinDelta <= MaxClock}

\* C21: under a clock that strictly increases, every sequence the controller
\* starts is eventually finished and the controller evaluates its decision
\* logic again in a later update; it never stays executing forever.  The
\* model's clock stops at MaxClock, so this is stated of every sequence whose
\* planned duration ends before the last update the clock allows.
C21_ExecutingLeadsBackToDeciding ==
    \A c \in LiveClocks :
        (/\ path \in StartingPaths
         /\ clock = c
         /\ c + TotalDuration(active_sequence.steps) + MinDelta <= MaxClock)
        ~> (/\ Decided
            /\ clock > c
            /\ clock >= c + MinDelta)

\* A psycho, the longest template, ran out and the update that found it
\* finished steered.
C21_Witness ==
    /\ Decided
    /\ path = "steer"
    /\ active_sequence # None
    /\ active_sequence.steps = psycho_steps
    /\ active_sequence.done
    /\ clock >= active_sequence.start + TotalDuration(psycho_steps)

----------------------------------------------------------------------------
====
